---- MODULE Spec2Model ----
(***************************************************************************)
(* stacker: the Pack / Unpack traits (src/src/pack.rs, src/src/unpack.rs). *)
(*                                                                         *)
(* Bytes are naturals 0..255.  An integer value is its sign and its        *)
(* magnitude in little-endian 16-bit limbs (u8: one limb below 256), so    *)
(* that 64 and 128 bit values stay inside TLC's integers and to_be_bytes / *)
(* from_be_bytes are real conversions.  Every value is a record:           *)
(*   bool [b], integer [neg, mag], text [utf8], sequence [items],          *)
(*   ownership wrapper [ptr, val].                                         *)
(***************************************************************************)
EXTENDS Integers, Sequences, FiniteSets, TLC

VARIABLES sink, packed, source, pos, taken, last

vars == <<sink, packed, source, pos, taken, last>>

----------------------------------------------------------------------------
(* Bounds of the model *)

\* longest sequence / text (in characters) enumerated element by element
MaxSeq == 2
\* values appended one after another to one sink
MaxVals == 2
\* how far the long text and the long sequence exceed the intermediate buffer
Extra == 1
\* bytes of a caller-supplied source after its optional length prefix
MaxPayload == 3
\* largest length prefix put in front of a caller-supplied source
MaxDeclared == 3
\* largest declared length the model follows a decode for
MaxLen == 600
\* read/write calls whose outcome the environment chooses (later calls succeed in full)
MaxScript == 2

(* Program constants *)

\* let mut buffer = [0x00; 512];
BufLen == 512

----------------------------------------------------------------------------
(* Helpers *)

Min(a, b) == IF a < b THEN a ELSE b

Zeros(n) == [i \in 1..n |-> 0]

Take(s, n) == SubSeq(s, 1, Min(n, Len(s)))

Drop(s, n) == SubSeq(s, n + 1, Len(s))

RECURSIVE SeqsUpTo(_, _)
SeqsUpTo(S, n) ==
    IF n = 0 THEN {<<>>}
    ELSE LET shorter == SeqsUpTo(S, n - 1)
         IN shorter \cup {Append(s, x) : s \in {t \in shorter : Len(t) = n - 1}, x \in S}

RECURSIVE Flatten(_)
Flatten(ss) == IF ss = <<>> THEN <<>> ELSE Head(ss) \o Flatten(Tail(ss))

----------------------------------------------------------------------------
(* Types *)

Bool == [k |-> "bool"]
IntT(bits, signed, nz) == [k |-> "int", bits |-> bits, signed |-> signed, nz |-> nz]
U8 == IntT(8, FALSE, FALSE)
U16 == IntT(16, FALSE, FALSE)
U32 == IntT(32, FALSE, FALSE)
Str == [k |-> "str"]
Vec(T) == [k |-> "vec", of |-> T]
Ptr(p, T) == [k |-> "ptr", ptr |-> p, of |-> T]

\* the integer types both traits are implemented for (there is no i8)
IntTypes ==
    {IntT(b, FALSE, nz) : b \in {8, 16, 32, 64, 128}, nz \in BOOLEAN}
    \cup {IntT(b, TRUE, nz) : b \in {16, 32, 64, 128}, nz \in BOOLEAN}

FixedTypes == {Bool} \cup IntTypes

Width(ty) == IF ty.k = "bool" THEN 1 ELSE ty.bits \div 8

----------------------------------------------------------------------------
(* Integer values *)

NLimbs(bits) == IF bits <= 16 THEN 1 ELSE bits \div 16

Base(bits) == IF bits = 8 THEN 256 ELSE 65536

IsZero(limbs) == \A i \in 1..Len(limbs) : limbs[i] = 0

\* the limbs of a small natural, truncated to `bits` bits
Limbs(n, bits) ==
    [i \in 1..NLimbs(bits) |->
        IF i = 1 THEN n % Base(bits)
        ELSE IF i = 2 THEN (n \div 65536) % 65536
        ELSE 0]

RECURSIVE AddOne(_, _)
\* limbs + 1, wrapping at the width
AddOne(limbs, base) ==
    IF limbs = <<>> THEN <<>>
    ELSE IF Head(limbs) + 1 < base THEN <<Head(limbs) + 1>> \o Tail(limbs)
    ELSE <<0>> \o AddOne(Tail(limbs), base)

\* two's complement negation of a bit pattern
Negate(limbs, bits) ==
    AddOne([i \in 1..Len(limbs) |-> Base(bits) - 1 - limbs[i]], Base(bits))

\* `self as uN`: the bit pattern of an integer value
Bits(ty, v) == IF v.neg THEN Negate(v.mag, ty.bits) ELSE v.mag

\* `uN as iN`: the integer value of a bit pattern
OfBits(ty, limbs) ==
    IF ty.signed /\ limbs[Len(limbs)] >= Base(ty.bits) \div 2
    THEN [neg |-> TRUE, mag |-> Negate(limbs, ty.bits)]
    ELSE [neg |-> FALSE, mag |-> limbs]

Nat32(n) == [neg |-> FALSE, mag |-> Limbs(n, 32)]

\* `n as uN` of a usize: the value reduced modulo 2^N
as_uint(n, ty) == [neg |-> FALSE, mag |-> Limbs(n, ty.bits)]

----------------------------------------------------------------------------
(* Byte order *)

\* the mutant of to_be_bytes: least significant byte first
to_le_bytes(limbs, bits) ==
    IF bits = 8 THEN <<limbs[1]>>
    ELSE Flatten([j \in 1..Len(limbs) |-> <<limbs[j] % 256, limbs[j] \div 256>>])

\* uN::to_be_bytes: most significant byte first
to_be_bytes(limbs, bits) ==
    IF bits = 8 THEN <<limbs[1]>>
    ELSE Flatten([j \in 1..Len(limbs) |->
            LET l == limbs[Len(limbs) + 1 - j] IN <<l \div 256, l % 256>>])

\* the mutant of from_be_bytes: the first byte taken as the least significant
from_le_bytes(bytes, bits) ==
    IF bits = 8 THEN <<bytes[1]>>
    ELSE [i \in 1..NLimbs(bits) |-> bytes[2 * i] * 256 + bytes[2 * i - 1]]

\* uN::from_be_bytes
from_be_bytes(bytes, bits) ==
    IF bits = 8 THEN <<bytes[1]>>
    ELSE [i \in 1..NLimbs(bits) |->
            LET j == NLimbs(bits) + 1 - i IN bytes[2 * j - 1] * 256 + bytes[2 * j]]

----------------------------------------------------------------------------
(* io::Write.  A writer is the outcomes its next write calls will have     *)
(* (script; calls past its end accept the whole buffer), the calls made on *)
(* it and the bytes it has accepted.  Vec<u8> accepts every buffer whole.  *)

WriteOutcomes == {"full", "one", "intr", "fail"}

OkN(n) == [kind |-> "Ok", n |-> n]
IoErr(e) == [kind |-> "Err", io |-> e]

Writer(script, bytes) == [script |-> script, calls |-> <<>>, out |-> bytes]

VecWriter(bytes) == Writer(<<>>, bytes)

Outcome(script, k) == IF k <= Len(script) THEN script[k] ELSE "full"

\* writer.write(buf): io::Result<usize>, the number of bytes accepted
write(w, buf) ==
    LET o == Outcome(w.script, Len(w.calls) + 1)
        res == CASE o = "full" -> OkN(Len(buf))
                 [] o = "one" -> OkN(Min(1, Len(buf)))
                 [] o = "intr" -> IoErr("Interrupted")
                 [] OTHER -> IoErr("BrokenPipe")
    IN [res |-> res,
        w |-> [w EXCEPT !.calls = Append(@, [buf |-> buf, res |-> res]),
                        !.out = @ \o (IF res.kind = "Ok" THEN Take(buf, res.n) ELSE <<>>)]]

----------------------------------------------------------------------------
(* Pack *)

RECURSIVE pack_into(_, _, _)
RECURSIVE pack_items(_, _, _, _)

\* impl Pack for bool
pack_bool(v, w) == write(w, <<IF v.b THEN 0 ELSE 255>>)

\* impl Pack for u8 .. NonZeroI128: self.to_be_bytes() / self.get().to_be_bytes()
pack_int(ty, v, w) == write(w, to_be_bytes(Bits(ty, v), ty.bits))

\* the mutant of pack_str: the count of the payload alone is reported
pack_str_payload_count(v, w) ==
    LET first == pack_into(U32, Nat32(Len(v.utf8)), w)
    IN IF first.res.kind = "Err" THEN first ELSE write(first.w, v.utf8)

\* impl Pack for str, the length prefix being of the unsigned type lenTy
pack_str_as(lenTy, v, w) ==
    LET buffer == v.utf8
        len == as_uint(Len(buffer), lenTy)
        first == pack_into(lenTy, len, w)
    IN IF first.res.kind = "Err" THEN first
       ELSE LET written == first.res.n
                second == write(first.w, buffer)
            IN [res |-> IF second.res.kind = "Ok"
                        THEN OkN(written + second.res.n) ELSE second.res,
                w |-> second.w]

\* impl Pack for str: let len = buffer.len() as u32
pack_str(v, w) == pack_str_as(U32, v, w)

RECURSIVE pack_items_keep_going(_, _, _, _)
\* the mutant of pack_items: an element's error is kept for the end and the
\* elements after it are still written
pack_items_keep_going(T, items, w, written) ==
    IF items = <<>> THEN [res |-> OkN(written), w |-> w]
    ELSE IF Len(items) = 1 THEN
        LET r == pack_into(T, items[1], w)
        IN IF r.res.kind = "Err" THEN r
           ELSE [res |-> OkN(written + r.res.n), w |-> r.w]
    ELSE LET h == Len(items) \div 2
             a == pack_items_keep_going(T, SubSeq(items, 1, h), w, written)
             b == pack_items_keep_going(T, SubSeq(items, h + 1, Len(items)), a.w,
                                        IF a.res.kind = "Err" THEN written ELSE a.res.n)
         IN IF a.res.kind = "Err" THEN [res |-> a.res, w |-> b.w] ELSE b

\* impl Pack for [T]: the loop over self.iter(), written += item.pack_into(writer)?
\* (the items are taken in order, in halves, to bound the evaluation depth)
pack_items(T, items, w, written) ==
    IF items = <<>> THEN [res |-> OkN(written), w |-> w]
    ELSE IF Len(items) = 1 THEN
        LET r == pack_into(T, items[1], w)
        IN IF r.res.kind = "Err" THEN r
           ELSE [res |-> OkN(written + r.res.n), w |-> r.w]
    ELSE LET h == Len(items) \div 2
             a == pack_items(T, SubSeq(items, 1, h), w, written)
         IN IF a.res.kind = "Err" THEN a
            ELSE pack_items(T, SubSeq(items, h + 1, Len(items)), a.w, a.res.n)

\* impl Pack for [T], the length prefix being of the unsigned type lenTy
pack_slice_as(lenTy, ty, v, w) ==
    LET len == as_uint(Len(v.items), lenTy)
        first == pack_into(lenTy, len, w)
    IN IF first.res.kind = "Err" THEN first
       ELSE pack_items(ty.of, v.items, first.w, first.res.n)

\* impl Pack for [T]: let len = self.len() as u32
pack_slice(ty, v, w) == pack_slice_as(U32, ty, v, w)

\* impl Pack for dyn AsRef<T>, and the method call's deref of Box / Rc / Arc
pack_ptr(ty, v, w) == pack_into(ty.of, v.val, w)

\* Pack::pack_into, by the static type of the value
pack_into(ty, v, w) ==
    CASE ty.k = "bool" -> pack_bool(v, w)
      [] ty.k = "int" -> pack_int(ty, v, w)
      [] ty.k = "str" -> pack_str(v, w)
      [] ty.k = "vec" -> pack_slice(ty, v, w)
      [] ty.k = "ptr" -> pack_ptr(ty, v, w)

\* Pack::pack_to_vec: io::Result<Vec<u8>>
pack_to_vec(ty, v) ==
    LET r == pack_into(ty, v, VecWriter(<<>>))
    IN IF r.res.kind = "Err" THEN r.res ELSE [kind |-> "Ok", buffer |-> r.w.out]

----------------------------------------------------------------------------
(* io::Read.  A reader is its bytes, its position, the outcomes its next   *)
(* read calls will have (calls past the script's end deliver all that is   *)
(* asked for and available) and the number of calls made.  &[u8] always    *)
(* delivers min(buf.len(), remaining).                                     *)

ReadOutcomes == {"full", "one", "intr", "fail"}

Reader(src, p, script) == [src |-> src, pos |-> p, script |-> script, k |-> 0]

SliceReader(src, p) == Reader(src, p, <<>>)

\* reader.read(&mut buf) with buf.len() = n: io::Result<usize> and the bytes delivered
read(r, n) ==
    LET o == Outcome(r.script, r.k + 1)
        avail == Len(r.src) - r.pos
        m == CASE o = "full" -> Min(n, avail)
               [] o = "one" -> Min(1, Min(n, avail))
               [] OTHER -> 0
        res == CASE o = "intr" -> IoErr("Interrupted")
                 [] o = "fail" -> IoErr("BrokenPipe")
                 [] OTHER -> OkN(m)
    IN [res |-> res,
        data |-> SubSeq(r.src, r.pos + 1, r.pos + m),
        r |-> [r EXCEPT !.pos = @ + m, !.k = @ + 1]]

RECURSIVE read_exact_loop(_, _, _)
\* Read::read_exact: read until the buffer is full, retrying on Interrupted
read_exact_loop(r, need, got) ==
    IF need = 0 THEN [res |-> [kind |-> "Ok"], data |-> got, r |-> r]
    ELSE LET rd == read(r, need)
         IN CASE rd.res.kind = "Err" /\ rd.res.io = "Interrupted" ->
                    read_exact_loop(rd.r, need, got)
              [] rd.res.kind = "Err" -> [res |-> rd.res, data |-> got, r |-> rd.r]
              [] rd.res.n = 0 ->
                    [res |-> IoErr("UnexpectedEof"), data |-> got, r |-> rd.r]
              [] OTHER -> read_exact_loop(rd.r, need - rd.res.n, got \o rd.data)

read_exact(r, n) == read_exact_loop(r, n, <<>>)

----------------------------------------------------------------------------
(* Unpack *)

\* unpack::Result<T>, a panic, and a decode the model does not follow
Ok(v) == [kind |-> "Ok", val |-> v]
ErrIO(e) == [kind |-> "Err", err |-> "IO", io |-> e]
ErrUTF8 == [kind |-> "Err", err |-> "UTF8"]
Panic == [kind |-> "Panic"]
Beyond == [kind |-> "Beyond"]

\* core::str::from_utf8 as the automaton it is: `need` continuation bytes are
\* awaited, the next of them within lo..hi; need = -1 once a byte was rejected
Utf8State(need, lo, hi) == [need |-> need, lo |-> lo, hi |-> hi]
Utf8Start == Utf8State(0, 0, 0)
Utf8Bad == Utf8State(-1, 0, 0)

Utf8Step(s, b) ==
    CASE s.need < 0 -> Utf8Bad
      [] s.need > 0 ->
            IF b >= s.lo /\ b <= s.hi THEN
                (IF s.need = 1 THEN Utf8Start ELSE Utf8State(s.need - 1, 128, 191))
            ELSE Utf8Bad
      [] b < 128 -> Utf8Start
      [] b >= 194 /\ b <= 223 -> Utf8State(1, 128, 191)
      [] b = 224 -> Utf8State(2, 160, 191)
      [] (b >= 225 /\ b <= 236) \/ b = 238 \/ b = 239 -> Utf8State(2, 128, 191)
      [] b = 237 -> Utf8State(2, 128, 159)
      [] b = 240 -> Utf8State(3, 144, 191)
      [] b >= 241 /\ b <= 243 -> Utf8State(3, 128, 191)
      [] b = 244 -> Utf8State(3, 128, 143)
      [] OTHER -> Utf8Bad

RECURSIVE Utf8Run(_, _, _, _)
\* the automaton over bytes[lo..hi] (halved, to bound the evaluation depth)
Utf8Run(bytes, lo, hi, s) ==
    IF lo > hi THEN s
    ELSE IF lo = hi THEN Utf8Step(s, bytes[lo])
    ELSE LET mid == (lo + hi) \div 2
             left == Utf8Run(bytes, lo, mid, s)
         IN IF left.need < 0 THEN Utf8Bad ELSE Utf8Run(bytes, mid + 1, hi, left)

ValidUtf8(bytes) == Utf8Run(bytes, 1, Len(bytes), Utf8Start) = Utf8Start

\* the mutant of from_utf8: the bytes are taken unchecked
from_utf8_unchecked(bytes) == Ok([utf8 |-> bytes])

\* String::from_utf8(bytes).map_err(Error::UTF8)
from_utf8(bytes) == IF ValidUtf8(bytes) THEN Ok([utf8 |-> bytes]) ELSE ErrUTF8

RECURSIVE unpack_from(_, _)
RECURSIVE unpack_str_loop(_, _, _, _)
RECURSIVE unpack_items(_, _, _, _)

\* the mutant of unpack_bool: true only for the byte packed for true
unpack_bool_strict(r) ==
    LET rx == read_exact(r, 1)
    IN [res |-> IF rx.res.kind = "Err" THEN ErrIO(rx.res.io)
                ELSE Ok([b |-> rx.data[1] = 0]),
        r |-> rx.r]

\* impl Unpack for bool
unpack_bool(r) ==
    LET rx == read_exact(r, 1)
    IN [res |-> IF rx.res.kind = "Err" THEN ErrIO(rx.res.io)
                ELSE Ok([b |-> rx.data[1] # 255]),
        r |-> rx.r]

\* NonZeroN::new(value).unwrap()
nonzero_unwrap(v) == IF IsZero(v.mag) THEN Panic ELSE Ok(v)

\* impl Unpack for u8 .. NonZeroI128
unpack_int(ty, r) ==
    LET rx == read_exact(r, Width(ty))
    IN [res |-> IF rx.res.kind = "Err" THEN ErrIO(rx.res.io)
                ELSE LET v == OfBits(ty, from_be_bytes(rx.data, ty.bits))
                     IN IF ty.nz THEN nonzero_unwrap(v) ELSE Ok(v),
        r |-> rx.r]

\* `u32 as usize`, as far as the model follows it
InModel(v) == v.mag[2] = 0 /\ v.mag[1] <= MaxLen
as_usize(v) == v.mag[1]

\* impl Unpack for String: the while loop; buffer keeps what earlier reads left in it
unpack_str_loop(r, len, bytes, buffer) ==
    IF len = 0 THEN [res |-> from_utf8(bytes), r |-> r]
    ELSE LET rd == read(r, Len(buffer))
             filled == rd.data \o Drop(buffer, Len(rd.data))
         IN IF rd.res.kind = "Err" THEN [res |-> ErrIO(rd.res.io), r |-> rd.r]
            ELSE IF len > Len(buffer)
                 THEN unpack_str_loop(rd.r, len - Len(buffer), bytes \o filled, filled)
                 ELSE unpack_str_loop(rd.r, 0, bytes \o Take(filled, len), filled)

\* impl Unpack for String
unpack_str(r) ==
    LET first == unpack_from(U32, r)
    IN IF first.res.kind # "Ok" THEN first
       ELSE IF ~InModel(first.res.val) THEN [res |-> Beyond, r |-> first.r]
       ELSE unpack_str_loop(first.r, as_usize(first.res.val), <<>>, Zeros(BufLen))

\* impl Unpack for Vec<T>: for _i in 0..len { result.push(T::unpack_from(&mut reader)?) }
\* (the n items are taken in order, in halves, to bound the evaluation depth)
unpack_items(T, r, n, result) ==
    IF n = 0 THEN [res |-> Ok([items |-> result]), r |-> r]
    ELSE IF n = 1 THEN
        LET item == unpack_from(T, r)
        IN IF item.res.kind # "Ok" THEN item
           ELSE [res |-> Ok([items |-> Append(result, item.res.val)]), r |-> item.r]
    ELSE LET h == n \div 2
             a == unpack_items(T, r, h, result)
         IN IF a.res.kind # "Ok" THEN a
            ELSE unpack_items(T, a.r, n - h, a.res.val.items)

\* impl Unpack for Vec<T>
unpack_vec(ty, r) ==
    LET first == unpack_from(U32, r)
    IN IF first.res.kind # "Ok" THEN first
       ELSE IF ~InModel(first.res.val) THEN [res |-> Beyond, r |-> first.r]
       ELSE unpack_items(ty.of, first.r, as_usize(first.res.val), <<>>)

\* the mutant of unpack_ptr: a byte of its own is read before the wrapped value
unpack_ptr_tagged(ty, r) ==
    LET tag == read_exact(r, 1)
        inner == unpack_from(ty.of, tag.r)
    IN [res |-> IF tag.res.kind = "Err" THEN ErrIO(tag.res.io)
                ELSE IF inner.res.kind = "Ok"
                THEN Ok([ptr |-> ty.ptr, val |-> inner.res.val]) ELSE inner.res,
        r |-> inner.r]

\* impl Unpack for Box<T> / Rc<T> / Arc<T>: T::unpack_from(reader).map(|x| Box::new(x))
unpack_ptr(ty, r) ==
    LET inner == unpack_from(ty.of, r)
    IN [res |-> IF inner.res.kind = "Ok"
                THEN Ok([ptr |-> ty.ptr, val |-> inner.res.val]) ELSE inner.res,
        r |-> inner.r]

\* Unpack::unpack_from, by the type asked for
unpack_from(ty, r) ==
    CASE ty.k = "bool" -> unpack_bool(r)
      [] ty.k = "int" -> unpack_int(ty, r)
      [] ty.k = "str" -> unpack_str(r)
      [] ty.k = "vec" -> unpack_vec(ty, r)
      [] ty.k = "ptr" -> unpack_ptr(ty, r)

----------------------------------------------------------------------------
(* The values and sources the operations are run on *)

\* 0, 2, the maximum; for signed types 0, -1, the minimum, the maximum; no 0 if non-zero
IntSamples(ty) ==
    LET n == NLimbs(ty.bits)
        top == Base(ty.bits) - 1
        half == Base(ty.bits) \div 2
        pos_(m) == [neg |-> FALSE, mag |-> m]
        neg_(m) == [neg |-> TRUE, mag |-> m]
        zero == pos_(Limbs(0, ty.bits))
        umax == pos_([i \in 1..n |-> top])
        smax == pos_([i \in 1..n |-> IF i = n THEN half - 1 ELSE top])
        smin == neg_([i \in 1..n |-> IF i = n THEN half ELSE 0])
        all == IF ty.signed THEN {zero, neg_(Limbs(1, ty.bits)), smin, smax}
               ELSE {zero, pos_(Limbs(2, ty.bits)), umax}
    IN IF ty.nz THEN all \ {zero} ELSE all

\* "a" and the two-byte "e with acute accent"
Chars == {<<97>>, <<195, 169>>}

LongLen == BufLen + Extra

TextSamples ==
    {[utf8 |-> Flatten(cs)] : cs \in SeqsUpTo(Chars, MaxSeq)}
    \cup {[utf8 |-> <<97, 98, 99>>], [utf8 |-> [i \in 1..LongLen |-> 97]]}

RECURSIVE Samples(_)
Samples(ty) ==
    CASE ty.k = "bool" -> {[b |-> x] : x \in BOOLEAN}
      [] ty.k = "int" -> IntSamples(ty)
      [] ty.k = "str" -> TextSamples
      [] ty.k = "vec" ->
            {[items |-> s] : s \in SeqsUpTo(Samples(ty.of), MaxSeq)}
            \cup {[items |-> [i \in 1..LongLen |-> CHOOSE x \in Samples(ty.of) : TRUE]]}
      [] ty.k = "ptr" -> {[ptr |-> ty.ptr, val |-> x] : x \in Samples(ty.of)}

\* [T] is Pack only for the element types that are Pack themselves: the fixed-width ones
SeqTypes == {Vec(U8), Vec(U16), Vec(Bool)}

PtrTypes == {Ptr("Box", U16), Ptr("Rc", Vec(U8)), Ptr("Arc", Str)}

PackTypes == FixedTypes \cup {Str} \cup SeqTypes \cup PtrTypes

\* Vec<String> is Unpack although [String] is not Pack
UnpackTypes == PackTypes \cup {Vec(Str)}

\* the typed values that are packed
PackInputs == UNION {{[ty |-> ty, val |-> v] : v \in Samples(ty)} : ty \in PackTypes}

\* the typed values written one after another into one sink: those of a few types
\* whose encoding is at most a length prefix and one byte
StreamTypes == {Bool, U8, U16, Str, Vec(U8)}
StreamInputs ==
    {in \in PackInputs :
        in.ty \in StreamTypes /\ Len(pack_to_vec(in.ty, in.val).buffer) <= Width(U32) + 1}

\* "a", the two bytes of "e with acute accent", and a byte no UTF-8 text holds
Alphabet == {97, 195, 169, 255}

Payloads == SeqsUpTo(Alphabet, MaxPayload)

\* a caller-supplied source: raw bytes, or a length prefix and raw bytes
Sources ==
    Payloads
    \cup {to_be_bytes(Limbs(n, 32), 32) \o p : n \in 0..MaxDeclared, p \in Payloads}
    \cup {Zeros(Width(ty)) : ty \in IntTypes}
    \cup {<<0, 0, 0, 3, 255, 254, 253>>}

\* a writer or a reader whose first k calls are complete and whose next one fails
FailAfter(k, e) == [i \in 1..(k + 1) |-> IF i <= k THEN "full" ELSE e]

\* the outcomes of a writer's or a reader's first calls: every outcome of the
\* first MaxScript calls, and a failure at any call up to the one after the last
\* element of a short sequence
Scripts ==
    SeqsUpTo(WriteOutcomes \cup ReadOutcomes, MaxScript)
    \cup {FailAfter(k, e) : k \in 0..(MaxSeq + 1), e \in {"intr", "fail"}}

----------------------------------------------------------------------------
(* State: the Vec<u8> (or writer) being packed into, the values packed     *)
(* into it, the source being unpacked from and the reader's position in    *)
(* it, the number of values unpacked from it, and the last call.           *)

Init ==
    /\ sink = <<>>
    /\ packed = <<>>
    /\ source = <<>>
    /\ pos = 0
    /\ taken = 0
    /\ last = [op |-> "none"]

\* let bytes = value.pack_to_vec()
PackToVec(ty, v) ==
    /\ last.op = "none"
    /\ LET res == pack_to_vec(ty, v)
       IN /\ sink' = (IF res.kind = "Ok" THEN res.buffer ELSE <<>>)
          /\ packed' = <<[ty |-> ty, val |-> v]>>
          /\ last' = [op |-> "pack_to_vec", ty |-> ty, val |-> v, res |-> res]
    /\ UNCHANGED <<source, pos, taken>>

\* value.pack_into(&mut writer), the writer's next outcomes being `script`
PackInto(ty, v, script) ==
    /\ last.op \in {"none", "pack_into"}
    /\ last.op = "pack_into" => last.res.kind = "Ok"
    /\ Len(packed) < MaxVals
    /\ LET r == pack_into(ty, v, Writer(script, sink))
       IN /\ sink' = r.w.out
          /\ packed' = Append(packed, [ty |-> ty, val |-> v])
          /\ last' = [op |-> "pack_into", ty |-> ty, val |-> v, res |-> r.res,
                      calls |-> r.w.calls, before |-> Len(sink)]
    /\ UNCHANGED <<source, pos, taken>>

\* &mut bytes.as_ref(): a source holding exactly the bytes packed
Open ==
    /\ last.op \in {"pack_to_vec", "pack_into"}
    /\ last.res.kind = "Ok"
    /\ source' = sink
    /\ pos' = 0
    /\ taken' = 0
    /\ last' = [op |-> "open"]
    /\ UNCHANGED <<sink, packed>>

\* the caller supplies a source of its own
Supply(bytes) ==
    /\ last.op = "none"
    /\ source' = bytes
    /\ pos' = 0
    /\ taken' = 0
    /\ last' = [op |-> "supply"]
    /\ UNCHANGED <<sink, packed>>

\* T::unpack_from(&mut reader), the reader's next outcomes being `script`;
\* values that were packed are unpacked in the order and at the types they were packed
UnpackFrom(ty, script) ==
    /\ last.op \in {"open", "supply", "unpack_from"}
    /\ last.op = "unpack_from" => last.res.kind = "Ok"
    /\ IF packed = <<>> THEN taken = 0
       ELSE taken < Len(packed) /\ ty = packed[taken + 1].ty
    /\ LET u == unpack_from(ty, Reader(source, pos, script))
       IN /\ u.res.kind # "Beyond"
          /\ pos' = u.r.pos
          /\ taken' = taken + 1
          /\ last' = [op |-> "unpack_from", ty |-> ty, res |-> u.res, start |-> pos,
                      outs |-> [i \in 1..u.r.k |-> Outcome(script, i)]]
    /\ UNCHANGED <<sink, packed, source>>

\* in-memory streams: Vec<u8> as the sink, &[u8] as the source
Next ==
    \/ \E in \in PackInputs : PackToVec(in.ty, in.val)
    \/ \E in \in StreamInputs : PackInto(in.ty, in.val, <<>>)
    \/ Open
    \/ \E bytes \in Sources : Supply(bytes)
    \/ \E ty \in UnpackTypes : UnpackFrom(ty, <<>>)

Spec == Init /\ [][Next]_vars

\* a fresh writer of any behaviour
PackIntoWriter(ty, v, script) == sink = <<>> /\ PackInto(ty, v, script)

\* a source holding exactly the bytes pack_to_vec returned
OpenVec == last.op = "pack_to_vec" /\ Open

\* any io::Write as the sink, any io::Read as the source
NextIO ==
    \/ \E in \in PackInputs : PackToVec(in.ty, in.val)
    \/ \E in \in PackInputs : \E script \in Scripts : PackIntoWriter(in.ty, in.val, script)
    \/ OpenVec
    \/ \E ty \in UnpackTypes : \E script \in Scripts : UnpackFrom(ty, script)

SpecIO == Init /\ [][NextIO]_vars

----------------------------------------------------------------------------
(* Lengths past the range of the prefix.  A text or a slice of 2^32 bytes   *)
(* or elements is out of reach, so the prefix is scaled down to one byte:   *)
(* the same code with u8 in the place of u32, on lengths around 2^8.        *)

ScaledLenType == U8

\* the first length the scaled prefix cannot hold
ScaledLimit == 2 ^ (ScaledLenType.bits)

\* texts and slices of every length up to past the limit, of one repeated element
ScaledInputs ==
    {[ty |-> Str, val |-> [utf8 |-> [i \in 1..n |-> 97]]] : n \in 0..(ScaledLimit + Extra)}
    \cup {[ty |-> Vec(U8), val |-> [items |-> [i \in 1..n |-> as_uint(7, U8)]]] :
            n \in 0..(ScaledLimit + Extra)}
    \cup {[ty |-> Vec(U16), val |-> [items |-> [i \in 1..n |-> as_uint(258, U16)]]] :
            n \in 0..(ScaledLimit + Extra)}
    \cup {[ty |-> Vec(Bool), val |-> [items |-> [i \in 1..n |-> [b |-> TRUE]]]] :
            n \in 0..(ScaledLimit + Extra)}

\* pack_into of a text or a slice with the scaled prefix
pack_scaled(ty, v, w) ==
    IF ty.k = "str" THEN pack_str_as(ScaledLenType, v, w)
    ELSE pack_slice_as(ScaledLenType, ty, v, w)

\* value.pack_into(&mut Vec::new()) with the scaled prefix
PackScaled(ty, v) ==
    /\ last.op = "none"
    /\ LET r == pack_scaled(ty, v, VecWriter(sink))
       IN /\ sink' = r.w.out
          /\ packed' = Append(packed, [ty |-> ty, val |-> v])
          /\ last' = [op |-> "pack_scaled", ty |-> ty, val |-> v, res |-> r.res,
                      calls |-> r.w.calls, before |-> Len(sink)]
    /\ UNCHANGED <<source, pos, taken>>

NextScaled == \E in \in ScaledInputs : PackScaled(in.ty, in.val)

SpecScaled == Init /\ [][NextScaled]_vars

----------------------------------------------------------------------------
(* What the claims are stated with *)

RECURSIVE Concat(_, _, _)
\* ss[lo] \o ... \o ss[hi]
Concat(ss, lo, hi) ==
    IF lo > hi THEN <<>>
    ELSE IF lo = hi THEN ss[lo]
    ELSE LET mid == (lo + hi) \div 2
         IN Concat(ss, lo, mid) \o Concat(ss, mid + 1, hi)

\* the bytes a value is encoded as in memory
Encoding(ty, v) == pack_to_vec(ty, v).buffer

\* the offset in the sink of the first byte after the i-th value packed
EndOf(i) == Len(Concat([j \in 1..i |-> Encoding(packed[j].ty, packed[j].val)], 1, i))

\* the last call was unpack_from, on a source holding the bytes packed
Decoded == last.op = "unpack_from" /\ packed # <<>>

\* the last call was unpack_from, on a source the caller supplied
DecodedSupplied == last.op = "unpack_from" /\ packed = <<>>

\* the length prefix at the head of src is at most n (src holds the 4 bytes)
DeclaredAtMost(src, n) ==
    src[1] = 0 /\ src[2] = 0 /\ src[3] * 256 + src[4] <= n

\* C1: a value packed by pack_to_vec and unpacked from a source holding exactly
\* those bytes comes back equal, for every supported type
RoundTrip ==
    (Decoded /\ Len(packed) = 1 /\ source = Encoding(packed[1].ty, packed[1].val))
        => last.res = Ok(packed[1].val)

\* C1 witness: a text longer than the intermediate buffer has made the round trip
RoundTripLongText ==
    /\ Decoded /\ Len(packed) = 1
    /\ last.ty = Str /\ Len(packed[1].val.utf8) > BufLen
    /\ last.res = Ok(packed[1].val)

\* C2: values packed one after another into one sink are unpacked in that order,
\* each unpack_from starting at the first byte of its own value, returning the
\* value packed there and leaving the source at the first byte after it
ExactConsumption ==
    Decoded =>
        /\ last.start = EndOf(taken - 1)
        /\ last.res = Ok(packed[taken].val)
        /\ pos = EndOf(taken)

\* the bytes unpack_from of a fixed-width type had to read are there and all zero
ZeroPattern ==
    /\ last.op = "unpack_from" /\ last.ty.k = "int"
    /\ Len(source) >= last.start + Width(last.ty)
    /\ \A i \in 1..Width(last.ty) : source[last.start + i] = 0

\* C3: unpacking the all-zero pattern as a non-zero integer returns an error of the
\* invariant-violation kind, and as the plain integer returns Ok(0)
NonZeroRejected ==
    ZeroPattern =>
        IF last.ty.nz THEN last.res.kind = "Err" /\ last.res.err = "Invariant"
        ELSE last.res = Ok([neg |-> FALSE, mag |-> Limbs(0, last.ty.bits)])

RECURSIVE Truncated(_, _)
\* src ends before the bytes a value of type ty needs
Truncated(ty, src) ==
    CASE ty.k \in {"bool", "int"} -> Len(src) < Width(ty)
      [] ty.k = "str" -> Len(src) < 4 \/ ~DeclaredAtMost(src, Len(src) - 4)
      [] ty.k = "vec" /\ ty.of.k \in {"bool", "int"} ->
            Len(src) < 4 \/ \E n \in 0..Len(src) :
                /\ n * Width(ty.of) <= Len(src) - 4
                /\ (n + 1) * Width(ty.of) > Len(src) - 4
                /\ ~DeclaredAtMost(src, n)
      [] ty.k = "ptr" -> Truncated(ty.of, src)
      [] OTHER -> FALSE

\* C4: unpack_from on a source that ends before the value does returns Err(Error::IO)
TruncatedFails ==
    (DecodedSupplied /\ Truncated(last.ty, source))
        => last.res.kind = "Err" /\ last.res.err = "IO"

\* the bytes the last pack_to_vec returned or the last pack_into added to the sink
Written ==
    IF last.op = "pack_to_vec" THEN last.res.buffer
    ELSE SubSeq(sink, last.before + 1, Len(sink))

\* the last call packed a value into memory: pack_to_vec, or pack_into a Vec<u8>
PackedInMemory ==
    \/ last.op = "pack_to_vec" /\ last.res.kind = "Ok"
    \/ /\ last.op = "pack_into" /\ last.res.kind = "Ok"
       /\ \A i \in 1..Len(last.calls) : last.calls[i].res = OkN(Len(last.calls[i].buf))

\* C5: false is packed as the single byte 0xFF and true as the single byte 0x00;
\* the byte 0xFF is unpacked as false and every other byte as true
BoolAsymmetry ==
    /\ (PackedInMemory /\ last.ty = Bool) =>
            Written = (IF last.val.b THEN <<0>> ELSE <<255>>)
    /\ (last.op = "unpack_from" /\ last.ty = Bool /\ Len(source) > last.start) =>
            /\ last.res = Ok([b |-> source[last.start + 1] # 255])
            /\ pos = last.start + 1

\* C5 witness: a byte that is neither 0x00 nor 0xFF has been unpacked as true
BoolOtherByteTrue ==
    /\ last.op = "unpack_from" /\ last.ty = Bool /\ Len(source) > last.start
    /\ source[last.start + 1] \notin {0, 255}
    /\ last.res = Ok([b |-> TRUE])

\* one Unicode scalar value in UTF-8 (the Unicode standard's table 3-7)
ScalarEncoding(c) ==
    LET in(i, lo, hi) == c[i] >= lo /\ c[i] <= hi
    IN CASE Len(c) = 1 -> in(1, 0, 127)
         [] Len(c) = 2 -> in(1, 194, 223) /\ in(2, 128, 191)
         [] Len(c) = 3 ->
                /\ in(3, 128, 191)
                /\ \/ in(1, 224, 224) /\ in(2, 160, 191)
                   \/ in(1, 225, 236) /\ in(2, 128, 191)
                   \/ in(1, 237, 237) /\ in(2, 128, 159)
                   \/ in(1, 238, 239) /\ in(2, 128, 191)
         [] Len(c) = 4 ->
                /\ in(3, 128, 191) /\ in(4, 128, 191)
                /\ \/ in(1, 240, 240) /\ in(2, 144, 191)
                   \/ in(1, 241, 243) /\ in(2, 128, 191)
                   \/ in(1, 244, 244) /\ in(2, 128, 143)
         [] OTHER -> FALSE

RECURSIVE WellFormed(_)
\* bytes is a concatenation of encoded scalar values
WellFormed(bytes) ==
    \/ bytes = <<>>
    \/ \E n \in 1..Min(4, Len(bytes)) :
            ScalarEncoding(Take(bytes, n)) /\ WellFormed(Drop(bytes, n))

\* the supplied source holds a length prefix n and at least n bytes after it
HoldsPayload ==
    /\ Len(source) >= 4
    /\ DeclaredAtMost(source, Len(source) - 4)

Payload == SubSeq(source, 5, 4 + source[3] * 256 + source[4])

\* C6: unpacking a text whose payload is not valid UTF-8 returns Err(Error::UTF8)
InvalidUtf8Rejected ==
    (DecodedSupplied /\ last.ty = Str /\ HoldsPayload /\ ~WellFormed(Payload))
        => last.res = ErrUTF8

\* C6 witness: the prefix 3 and the bytes 0xFF 0xFE 0xFD have been rejected
InvalidUtf8Example ==
    /\ DecodedSupplied /\ last.ty = Str
    /\ source = <<0, 0, 0, 3, 255, 254, 253>>
    /\ last.res = ErrUTF8

\* the 4-byte big-endian encoding of a length
Prefix4(n) ==
    <<(n \div 16777216) % 256, (n \div 65536) % 256, (n \div 256) % 256, n % 256>>

\* C7: a sequence of L elements is packed as the 4-byte big-endian L followed by
\* each element's own encoding in index order, and a text as the 4-byte big-endian
\* byte count followed by its bytes, and nothing else
LengthPrefix ==
    /\ (PackedInMemory /\ last.ty.k = "vec") =>
            LET items == last.val.items
            IN Written = Prefix4(Len(items))
                    \o Concat([i \in 1..Len(items) |-> Encoding(last.ty.of, items[i])],
                              1, Len(items))
    /\ (PackedInMemory /\ last.ty.k = "str") =>
            Written = Prefix4(Len(last.val.utf8)) \o last.val.utf8

\* C7 witness: a sequence of two 2-byte elements has been packed
LengthPrefixTwoWide ==
    /\ PackedInMemory /\ last.ty = Vec(U16) /\ Len(last.val.items) = 2
    /\ Len(Written) = 8

\* C8: unpack_from for Box<T>, Rc<T>, Arc<T> consumes the bytes unpack_from for T
\* consumes and returns T's result, wrapped if it is Ok; a wrapped value is packed
\* as the bytes of the value it wraps
WrapperTransparent ==
    /\ (last.op = "unpack_from" /\ last.ty.k = "ptr") =>
            LET inner == unpack_from(last.ty.of, SliceReader(source, last.start))
            IN /\ pos = inner.r.pos
               /\ last.res = (IF inner.res.kind = "Ok"
                              THEN Ok([ptr |-> last.ty.ptr, val |-> inner.res.val])
                              ELSE inner.res)
    /\ (PackedInMemory /\ last.ty.k = "ptr") =>
            Written = Encoding(last.ty.of, last.val.val)

\* C8 witness: a Box<u16> has been unpacked from two bytes
WrapperUnpacked ==
    /\ last.op = "unpack_from" /\ last.ty = Ptr("Box", U16)
    /\ last.res.kind = "Ok" /\ pos = last.start + 2

\* C9: an I/O error of kind Interrupted from the sink or the source is never what
\* pack_into or unpack_from returns
InterruptedIgnored ==
    /\ last.op = "pack_into" =>
            ~(last.res.kind = "Err" /\ last.res.io = "Interrupted")
    /\ last.op = "unpack_from" =>
            ~(last.res.kind = "Err" /\ last.res.err = "IO" /\ last.res.io = "Interrupted")

\* C10: pack_into returning Ok(n) means the sink accepted n bytes during the call
ReportedCount ==
    (last.op = "pack_into" /\ last.res.kind = "Ok")
        => last.res.n = Len(sink) - last.before

\* C10 witness: Ok was returned for a text after a write call that accepted only
\* part of its buffer
ReportedCountShortWrite ==
    /\ last.op = "pack_into" /\ last.res.kind = "Ok" /\ last.ty = Str
    /\ \E i \in 1..Len(last.calls) : last.calls[i].res.n < Len(last.calls[i].buf)

\* C11: pack_into returning Ok for an integer or a bool means the value's whole
\* encoding, N/8 bytes (1 byte), was appended to the sink, whatever part of the
\* buffer the sink's write call accepted
CompleteWrite ==
    (last.op = "pack_into" /\ last.ty.k \in {"bool", "int"} /\ last.res.kind = "Ok")
        => Written = Encoding(last.ty, last.val)

\* every read call of the last unpack_from delivered bytes, all or fewer than asked
\* for: none was interrupted and none failed
OnlyShortReads ==
    \A i \in 1..Len(last.outs) : last.outs[i] \in {"full", "one"}

\* C12: unpack_from for text on a source that holds the packed text and delivers
\* it in order, in reads that may be shorter than asked for, returns that text
ChunkedText ==
    (/\ Decoded /\ last.ty = Str /\ Len(packed) = 1
     /\ source = Encoding(Str, packed[1].val)
     /\ OnlyShortReads)
        => last.res = Ok(packed[1].val)

\* the bytes the writer accepted in the first n write calls of the last pack_into
Accepted(n) ==
    Concat([i \in 1..n |-> Take(last.calls[i].buf, last.calls[i].res.n)], 1, n)

\* the first n write calls of the last pack_into accepted all they were given
AllFull(n) ==
    \A i \in 1..n : /\ last.calls[i].res.kind = "Ok"
                    /\ last.calls[i].res.n = Len(last.calls[i].buf)

ScaledPrefix ==
    from_be_bytes(Take(Written, Width(ScaledLenType)), ScaledLenType.bits)[1]

\* C14: when pack_into returns Ok for a text or a sequence, the length prefix
\* written equals the number of payload bytes (text) or elements (sequence)
\* written after it, also for a length the prefix cannot hold: here with the
\* prefix scaled down to one byte and lengths up to past 2^8
PrefixAgrees ==
    (last.op = "pack_scaled" /\ last.res.kind = "Ok")
        => LET payload == Len(Written) - Width(ScaledLenType)
           IN IF last.ty.k = "str"
              THEN ScaledPrefix = payload /\ payload = Len(last.val.utf8)
              ELSE /\ ScaledPrefix * Width(last.ty.of) = payload
                   /\ ScaledPrefix = Len(last.val.items)

====
